---- MODULE Spec2Model ----
(***************************************************************************)
(* Model of the JSON validation engine of the cddl crate                   *)
(* (src/validation/json.rs): the recursive matcher that walks a parsed     *)
(* CDDL syntax tree and a serde_json value in lockstep.                    *)
(*                                                                         *)
(* Encoding of the data:                                                   *)
(*   Option<T>        a sequence of length at most one: <<>> or <<x>>      *)
(*   String (output of to_string()/format!)  a sequence of string tokens   *)
(*   Value            a record tagged by "kind"                            *)
(*   Type / Group / GroupChoice   sequences (Vec) of their members         *)
(*   Type2, GroupEntry, MemberKey, Occur, Rule   records tagged by "v"     *)
(*   Result           Ok, one of the Error variants, or one of the two     *)
(*                    ways a call can end without returning (Panic,        *)
(*                    StackOverflow)                                       *)
(***************************************************************************)
EXTENDS Integers, Sequences, FiniteSets, TLC

VARIABLES self, value, pc, call, result

vars == <<self, value, pc, call, result>>

----------------------------------------------------------------------------
(* Bounds of the model *)

\* Capacity of the call stack, in frames of the validate_* functions.
MaxDepth == 28

\* Longest array among the generated values.
MaxArrayLen == 3

\* Largest bound of an Occur::Exact among the generated occurrence indicators.
MaxOccurBound == 2

----------------------------------------------------------------------------
(* Option<T> *)

None == <<>>

Some(x) == <<x>>

----------------------------------------------------------------------------
(* serde_json::Value.  A Number is N::PosInt(u64), N::NegInt(i64) or       *)
(* N::Float(f64).  An integer is hi * 2^63 + lo; a float is lo halves.     *)

Null == [kind |-> "null"]

Bool(b) == [kind |-> "bool", b |-> b]

PosInt(n) == [kind |-> "number", repr |-> "PosInt", hi |-> 0, lo |-> n]

BigPosInt(n) == [kind |-> "number", repr |-> "PosInt", hi |-> 1, lo |-> n]

NegInt(n) == [kind |-> "number", repr |-> "NegInt", hi |-> 0, lo |-> n]

Float(halves) == [kind |-> "number", repr |-> "Float", hi |-> 0, lo |-> halves]

String(s) == [kind |-> "string", s |-> s]

Array(elems) == [kind |-> "array", elems |-> elems]

Object(members) == [kind |-> "object", members |-> members]

Member(k, v) == [key |-> k, val |-> v]

\* serde_json::Map::get
RECURSIVE MapGetFrom(_, _, _)
MapGetFrom(members, key, i) ==
  IF i > Len(members) THEN None
  ELSE IF members[i].key = key THEN Some(members[i].val)
  ELSE MapGetFrom(members, key, i + 1)

MapGet(om, key) == MapGetFrom(om.members, key, 1)

\* serde_json::Number::as_u64
as_u64(n) == IF n.repr = "PosInt" THEN Some([hi |-> n.hi, lo |-> n.lo]) ELSE None

\* serde_json::Number::as_i64: a PosInt above i64::MAX has none
as_i64(n) ==
  CASE n.repr = "PosInt" -> IF n.hi = 0 THEN Some(n.lo) ELSE None
    [] n.repr = "NegInt" -> Some(n.lo)
    [] OTHER -> None

\* serde_json::Number::as_f64, in halves; 2^63 + lo rounds to 2^63
as_f64(n) ==
  CASE n.repr = "Float" -> Some([hi |-> 0, halves |-> n.lo])
    [] n.hi = 1 -> Some([hi |-> 1, halves |-> 0])
    [] OTHER -> Some([hi |-> 0, halves |-> 2 * n.lo])

----------------------------------------------------------------------------
(* The syntax tree (crate::ast) *)

TextValue(t) == [v |-> "TextValue", t |-> t]

IntValue(i) == [v |-> "IntValue", i |-> i]

UintValue(u) == [v |-> "UintValue", u |-> u]

FloatValue(halves) == [v |-> "FloatValue", f |-> halves]

Typename(tn) == [v |-> "Typename", tn |-> tn]

ArrayT(g) == [v |-> "Array", g |-> g]

MapT(g) == [v |-> "Map", g |-> g]

\* every other Type2 variant (parenthesized type, unwrap, tagged data, ...)
OtherType2 == [v |-> "Other"]

Type1(t2) == [type2 |-> t2]

Optional == [v |-> "Optional"]

ZeroOrMore == [v |-> "ZeroOrMore"]

OneOrMore == [v |-> "OneOrMore"]

Exact(l, u) == [v |-> "Exact", l |-> l, u |-> u]

MemberKeyType1(t1) == [v |-> "Type1", t1 |-> t1]

Bareword(ident) == [v |-> "Bareword", ident |-> ident]

MemberKeyValue(t) == [v |-> "Value", t |-> t]

ValueMemberKey(occur, member_key, entry_type) ==
  [v |-> "ValueMemberKey", occur |-> occur, member_key |-> member_key,
   entry_type |-> entry_type]

TypeGroupname(occur, name) == [v |-> "TypeGroupname", occur |-> occur, name |-> name]

InlineGroup(occur, g) == [v |-> "InlineGroup", occur |-> occur, g |-> g]

TypeRule(name, t) == [v |-> "Type", name |-> name, value |-> t]

GroupRule(name, entry) == [v |-> "Group", name |-> name, entry |-> entry]

CDDL(rules) == [rules |-> rules]

----------------------------------------------------------------------------
(* validation::Result *)

Ok == [k |-> "Ok"]

\* Error::Target(JSONError { .. })
JSONError(expected_memberkey, expected_value, actual_memberkey, actual_value) ==
  [k |-> "Target", expected_memberkey |-> expected_memberkey,
   expected_value |-> expected_value, actual_memberkey |-> actual_memberkey,
   actual_value |-> actual_value]

SyntaxError(msg) == [k |-> "Syntax", msg |-> msg]

OccurrenceError(msg) == [k |-> "Occurrence", text |-> msg]

MultiError(errors) == [k |-> "MultiError", errors |-> errors]

\* unimplemented!() unwinds through every caller
Panic == [k |-> "Panic"]

\* the call stack is exhausted and the process aborts
StackOverflow == [k |-> "StackOverflow"]

\* the call did not return: nothing of the callers runs after it
Aborts(r) == r.k \in {"Panic", "StackOverflow"}

IsErr(r) == r.k \in {"Target", "Syntax", "Occurrence", "MultiError"}

----------------------------------------------------------------------------
(* Display of the syntax tree (to_string()), as a sequence of tokens *)

Str(s) == <<s>>

IdentifierToString(ident) == Str(ident)

OccurToString(o) ==
  CASE o.v = "Optional" -> Str("?")
    [] o.v = "ZeroOrMore" -> Str("*")
    [] o.v = "OneOrMore" -> Str("+")
    [] OTHER -> (IF o.l = None THEN <<>> ELSE Str(ToString(o.l[1]))) \o Str("*")
                \o (IF o.u = None THEN <<>> ELSE Str(ToString(o.u[1])))

OptOccurToString(occur) == IF occur = None THEN <<>> ELSE OccurToString(occur[1])

RECURSIVE Type2ToString(_), TypeToString(_), MemberKeyToString(_)
RECURSIVE GroupEntryToString(_), GroupChoiceToString(_), GroupToString(_)

Type2ToString(t2) ==
  CASE t2.v = "TextValue" -> <<"\"", t2.t, "\"">>
    [] t2.v = "IntValue" -> Str(ToString(t2.i))
    [] t2.v = "UintValue" -> Str(ToString(t2.u))
    [] t2.v = "FloatValue" -> <<ToString(t2.f), "/2">>
    [] t2.v = "Typename" -> IdentifierToString(t2.tn)
    [] t2.v = "Array" -> Str("[") \o GroupToString(t2.g) \o Str("]")
    [] t2.v = "Map" -> Str("{") \o GroupToString(t2.g) \o Str("}")
    [] OTHER -> Str("<other>")

TypeToString(t) ==
  IF Len(t) = 0 THEN <<>>
  ELSE IF Len(t) = 1 THEN Type2ToString(t[1].type2)
  ELSE TypeToString(SubSeq(t, 1, Len(t) - 1)) \o Str("/")
       \o Type2ToString(t[Len(t)].type2)

MemberKeyToString(mk) ==
  CASE mk.v = "Type1" -> Type2ToString(mk.t1.type2) \o Str("=>")
    [] mk.v = "Bareword" -> IdentifierToString(mk.ident) \o Str(":")
    [] OTHER -> <<"\"", mk.t, "\"", ":">>

GroupEntryToString(ge) ==
  CASE ge.v = "ValueMemberKey" ->
         OptOccurToString(ge.occur)
         \o (IF ge.member_key = None THEN <<>> ELSE MemberKeyToString(ge.member_key[1]))
         \o TypeToString(ge.entry_type)
    [] ge.v = "TypeGroupname" -> OptOccurToString(ge.occur) \o IdentifierToString(ge.name)
    [] OTHER -> OptOccurToString(ge.occur) \o Str("(") \o GroupToString(ge.g) \o Str(")")

GroupChoiceToString(gc) ==
  IF Len(gc) = 0 THEN <<>>
  ELSE GroupChoiceToString(SubSeq(gc, 1, Len(gc) - 1))
       \o GroupEntryToString(gc[Len(gc)]) \o Str(",")

GroupToString(g) ==
  IF Len(g) = 0 THEN <<>>
  ELSE IF Len(g) = 1 THEN GroupChoiceToString(g[1])
  ELSE GroupToString(SubSeq(g, 1, Len(g) - 1)) \o Str("//")
       \o GroupChoiceToString(g[Len(g)])

----------------------------------------------------------------------------
(* Functions that call nothing of the engine *)

PreludeNames ==
  {"any", "uint", "nint", "tstr", "text", "number", "float16", "float32", "float64",
   "float16-32", "float32-64", "float", "false", "true", "bool", "nil", "null"}

is_type_json_prelude(t) == Len(t) = 1 /\ t[1] \in PreludeNames

expect_null(ident) ==
  IF ident \in {"null", "nil"} THEN Ok
  ELSE JSONError(None, Str(ident), None, Null)

\* str::parse::<bool>()
ParseBool(ident) ==
  CASE ident = "true" -> Some(TRUE)
    [] ident = "false" -> Some(FALSE)
    [] OTHER -> None

expect_bool(ident, v) ==
  IF v.kind = "bool"
  THEN IF ident = "bool" THEN Ok
       ELSE IF ParseBool(ident) # None /\ ParseBool(ident)[1] = v.b THEN Ok
       ELSE JSONError(None, Str(ident), None, v)
  ELSE JSONError(None, Str(ident), None, v)

\* validate_numeric_data_type with nint compared by <= for <
validate_numeric_data_type_nint_zero(expected_memberkey, actual_memberkey, ident, v) ==
  LET mismatch == JSONError(expected_memberkey, Str(ident), actual_memberkey, v)
  IN IF v.kind = "number"
     THEN CASE ident = "uint" -> IF as_u64(v) # None THEN Ok ELSE mismatch
            [] ident = "nint" ->
                 IF as_i64(v) # None /\ as_i64(v)[1] <= 0 THEN Ok ELSE mismatch
            [] ident = "int" -> IF as_i64(v) # None THEN Ok ELSE mismatch
            [] ident = "number" -> Ok
            [] ident = "float16" -> IF as_f64(v) # None THEN Ok ELSE mismatch
            [] ident = "float32" -> IF as_f64(v) # None THEN Ok ELSE mismatch
            [] OTHER -> mismatch
     ELSE mismatch

validate_numeric_data_type(expected_memberkey, actual_memberkey, ident, v) ==
  LET mismatch == JSONError(expected_memberkey, Str(ident), actual_memberkey, v)
  IN IF v.kind = "number"
     THEN CASE ident = "uint" -> IF as_u64(v) # None THEN Ok ELSE mismatch
            [] ident = "nint" ->
                 IF as_i64(v) # None /\ as_i64(v)[1] < 0 THEN Ok ELSE mismatch
            [] ident = "int" -> IF as_i64(v) # None THEN Ok ELSE mismatch
            [] ident = "number" -> Ok
            [] ident = "float16" -> IF as_f64(v) # None THEN Ok ELSE mismatch
            [] ident = "float32" -> IF as_f64(v) # None THEN Ok ELSE mismatch
            [] OTHER -> mismatch
     ELSE mismatch

\* (n64 - f as f64).abs() < f64::EPSILON, both on the grid of halves
FloatWithinEpsilon(n64, f) == n64.hi = 0 /\ n64.halves = f

validate_numeric_value(t2, v) ==
  LET mismatch == JSONError(None, Type2ToString(t2), None, v)
  IN IF v.kind = "number"
     THEN CASE t2.v = "IntValue" ->
                 IF as_i64(v) # None /\ as_i64(v)[1] = t2.i THEN Ok ELSE mismatch
            [] t2.v = "FloatValue" ->
                 IF as_f64(v) # None /\ FloatWithinEpsilon(as_f64(v)[1], t2.f)
                 THEN Ok ELSE mismatch
            [] OTHER -> Ok
     ELSE mismatch

\* validate_array_occurrence with the lower bound of a range compared by <= for <
validate_array_occurrence_off_by_one(occur, group, values) ==
  LET len == Len(values)
      got == <<"Got", ToString(len), "values">>
  IN CASE occur.v \in {"ZeroOrMore", "Optional"} -> Ok
       [] occur.v = "OneOrMore" ->
            IF len = 0
            THEN OccurrenceError(Str("Expecting one or more values of group") \o group)
            ELSE Ok
       [] OTHER ->
            LET l == occur.l
                u == occur.u
            IN IF l # None /\ u # None /\ (len <= l[1] \/ len > u[1])
               THEN IF l[1] = u[1]
                    THEN OccurrenceError(<<"Expecting exactly", ToString(l[1]),
                                           "values of group">> \o group \o got)
                    ELSE OccurrenceError(<<"Expecting between", ToString(l[1]), "and",
                                           ToString(u[1]), "values of group">>
                                         \o group \o got)
               ELSE IF l # None /\ len < l[1]
               THEN OccurrenceError(<<"Expecting at least", ToString(l[1]),
                                      "values of group">> \o group \o got)
               ELSE IF u # None /\ len > u[1]
               THEN OccurrenceError(<<"Expecting no more than", ToString(u[1]),
                                      "values of group">> \o group \o got)
               ELSE Ok

validate_array_occurrence(occur, group, values) ==
  LET len == Len(values)
      got == <<"Got", ToString(len), "values">>
  IN CASE occur.v \in {"ZeroOrMore", "Optional"} -> Ok
       [] occur.v = "OneOrMore" ->
            IF len = 0
            THEN OccurrenceError(Str("Expecting one or more values of group") \o group)
            ELSE Ok
       [] OTHER ->
            LET l == occur.l
                u == occur.u
            IN IF l # None /\ u # None /\ (len < l[1] \/ len > u[1])
               THEN IF l[1] = u[1]
                    THEN OccurrenceError(<<"Expecting exactly", ToString(l[1]),
                                           "values of group">> \o group \o got)
                    ELSE OccurrenceError(<<"Expecting between", ToString(l[1]), "and",
                                           ToString(u[1]), "values of group">>
                                         \o group \o got)
               ELSE IF l # None /\ len < l[1]
               THEN OccurrenceError(<<"Expecting at least", ToString(l[1]),
                                      "values of group">> \o group \o got)
               ELSE IF u # None /\ len > u[1]
               THEN OccurrenceError(<<"Expecting no more than", ToString(u[1]),
                                      "values of group">> \o group \o got)
               ELSE Ok

----------------------------------------------------------------------------
(* The mutually recursive engine.  Every function takes the value `self`   *)
(* (the CDDL rule set) and, last, the number d of stack frames still free: *)
(* a call made with none left exhausts the stack.                          *)

\* self.rules.iter().any(|r| matches!(r, Rule::Type(tr) if tr.name == name))
IsTypeRuleName(cddl, name) ==
  \E i \in 1..Len(cddl.rules) : cddl.rules[i].v = "Type" /\ cddl.rules[i].name = name

\* index of the first rule named ident, 0 when there is none
RECURSIVE RuleIndexFrom(_, _, _)
RuleIndexFrom(cddl, ident, i) ==
  IF i > Len(cddl.rules) THEN 0
  ELSE IF cddl.rules[i].name = ident THEN i
  ELSE RuleIndexFrom(cddl, ident, i + 1)

\* index of the first Type rule, 0 when there is none
RECURSIVE FirstTypeRuleFrom(_, _)
FirstTypeRuleFrom(cddl, i) ==
  IF i > Len(cddl.rules) THEN 0
  ELSE IF cddl.rules[i].v = "Type" THEN i
  ELSE FirstTypeRuleFrom(cddl, i + 1)

\* A call of one engine function by another: `c` names the callee and holds its
\* arguments, and Invoke runs it.
RECURSIVE Invoke(_, _, _)

call_validate_rule_for_ident(cddl, ident, expected_memberkey, actual_memberkey, occur, v, d) ==
  Invoke(cddl, [f |-> "validate_rule_for_ident", ident |-> ident,
                emk |-> expected_memberkey, amk |-> actual_memberkey, occur |-> occur,
                v |-> v], d)

call_validate_type_rule(cddl, tr, expected_memberkey, actual_memberkey, occur, v, d) ==
  Invoke(cddl, [f |-> "validate_type_rule", tr |-> tr, emk |-> expected_memberkey,
                amk |-> actual_memberkey, occur |-> occur, v |-> v], d)

call_validate_group_rule(cddl, gr, occur, v, d) ==
  Invoke(cddl, [f |-> "validate_group_rule", gr |-> gr, occur |-> occur, v |-> v], d)

call_validate_type(cddl, t, expected_memberkey, actual_memberkey, occur, v, d) ==
  Invoke(cddl, [f |-> "validate_type", t |-> t, emk |-> expected_memberkey,
                amk |-> actual_memberkey, occur |-> occur, v |-> v], d)

call_validate_type1(cddl, t1, expected_memberkey, actual_memberkey, occur, v, d) ==
  Invoke(cddl, [f |-> "validate_type1", t1 |-> t1, emk |-> expected_memberkey,
                amk |-> actual_memberkey, occur |-> occur, v |-> v], d)

call_validate_type2(cddl, t2, expected_memberkey, actual_memberkey, occur, v, d) ==
  Invoke(cddl, [f |-> "validate_type2", t2 |-> t2, emk |-> expected_memberkey,
                amk |-> actual_memberkey, occur |-> occur, v |-> v], d)

call_validate_group(cddl, g, occur, v, d) ==
  Invoke(cddl, [f |-> "validate_group", g |-> g, occur |-> occur, v |-> v], d)

call_validate_group_choice(cddl, gc, occur, v, d) ==
  Invoke(cddl, [f |-> "validate_group_choice", gc |-> gc, occur |-> occur, v |-> v], d)

call_validate_group_entry(cddl, ge, occur, v, d) ==
  Invoke(cddl, [f |-> "validate_group_entry", ge |-> ge, occur |-> occur, v |-> v], d)

RECURSIVE find_type_choice(_, _, _, _, _, _, _, _, _)
RECURSIVE find_group_choice(_, _, _, _, _, _, _)
RECURSIVE for_group_entries(_, _, _, _, _, _, _)
RECURSIVE all_values(_, _, _, _, _, _, _)
RECURSIVE any_value(_, _, _, _, _, _, _)

validate_rule_for_ident(cddl, ident, expected_memberkey, actual_memberkey, occur, v, d) ==
  IF d = 0 THEN StackOverflow
  ELSE LET i == RuleIndexFrom(cddl, ident, 1)
       IN IF i = 0
          THEN SyntaxError(<<"No rule with name", ident, "defined">>)
          ELSE IF cddl.rules[i].v = "Type"
          THEN call_validate_type_rule(cddl, cddl.rules[i], expected_memberkey,
                                  actual_memberkey, occur, v, d - 1)
          ELSE call_validate_group_rule(cddl, cddl.rules[i], occur, v, d - 1)

validate_type_rule(cddl, tr, expected_memberkey, actual_memberkey, occur, v, d) ==
  IF d = 0 THEN StackOverflow
  ELSE call_validate_type(cddl, tr.value, expected_memberkey, actual_memberkey, occur, v, d - 1)

validate_group_rule(cddl, gr, occur, v, d) ==
  IF d = 0 THEN StackOverflow
  ELSE call_validate_group_entry(cddl, gr.entry, occur, v, d - 1)

\* t.0.iter().any(find_type_choice) from alternative i on, with the errors pushed so far
find_type_choice(cddl, t, expected_memberkey, actual_memberkey, occur, v, d, i, validation_errors) ==
  IF i > Len(t) THEN MultiError(validation_errors)
  ELSE LET r == call_validate_type1(cddl, t[i], expected_memberkey, actual_memberkey,
                               occur, v, d)
       IN IF r = Ok THEN Ok
          ELSE IF Aborts(r) THEN r
          ELSE find_type_choice(cddl, t, expected_memberkey, actual_memberkey, occur,
                                v, d, i + 1, Append(validation_errors, r))

validate_type(cddl, t, expected_memberkey, actual_memberkey, occur, v, d) ==
  IF d = 0 THEN StackOverflow
  ELSE find_type_choice(cddl, t, expected_memberkey, actual_memberkey, occur, v,
                        d - 1, 1, <<>>)

validate_type1(cddl, t1, expected_memberkey, actual_memberkey, occur, v, d) ==
  IF d = 0 THEN StackOverflow
  ELSE call_validate_type2(cddl, t1.type2, expected_memberkey, actual_memberkey, occur, v,
                      d - 1)

validate_type2(cddl, t2, expected_memberkey, actual_memberkey, occur, v, d) ==
  IF d = 0 THEN StackOverflow
  ELSE
  LET mismatch == JSONError(expected_memberkey, Type2ToString(t2), actual_memberkey, v)
  IN CASE t2.v = "TextValue" ->
            IF v.kind = "string" /\ v.s = t2.t THEN Ok ELSE mismatch
       [] t2.v \in {"IntValue", "UintValue", "FloatValue"} ->
            IF v.kind = "number" THEN validate_numeric_value(t2, v) ELSE mismatch
       [] t2.v = "Typename" ->
            CASE v.kind = "null" -> expect_null(t2.tn)
              [] v.kind = "bool" -> expect_bool(t2.tn, v)
              [] v.kind = "string" ->
                   IF t2.tn = "tstr" \/ t2.tn = "text" THEN Ok
                   ELSE IF is_type_json_prelude(Str(t2.tn))
                   THEN JSONError(expected_memberkey, Str(t2.tn), actual_memberkey, v)
                   ELSE call_validate_rule_for_ident(cddl, t2.tn, expected_memberkey,
                                                actual_memberkey, occur, v, d - 1)
              [] v.kind = "number" ->
                   validate_numeric_data_type(expected_memberkey, actual_memberkey,
                                              t2.tn, v)
              [] OTHER ->
                   call_validate_rule_for_ident(cddl, t2.tn, expected_memberkey,
                                           actual_memberkey, occur, v, d - 1)
       [] t2.v = "Array" ->
            IF v.kind = "array" THEN call_validate_group(cddl, t2.g, occur, v, d - 1)
            ELSE mismatch
       [] t2.v = "Map" ->
            IF v.kind = "object" THEN call_validate_group(cddl, t2.g, occur, v, d - 1)
            ELSE mismatch
       [] OTHER -> SyntaxError(<<"CDDL type">> \o Type2ToString(t2)
                               \o <<"can't be used to validate JSON">>)

\* g.0.iter().any(..) from choice i on, with the errors pushed so far
find_group_choice(cddl, g, occur, v, d, i, validation_errors) ==
  IF i > Len(g) THEN MultiError(validation_errors)
  ELSE LET r == call_validate_group_choice(cddl, g[i], occur, v, d)
       IN IF r = Ok THEN Ok
          ELSE IF Aborts(r) THEN r
          ELSE find_group_choice(cddl, g, occur, v, d, i + 1,
                                 Append(validation_errors, r))

validate_group(cddl, g, occur, v, d) ==
  IF d = 0 THEN StackOverflow
  ELSE find_group_choice(cddl, g, occur, v, d - 1, 1, <<>>)

\* values.iter().all(..) from element j on: whether all validated, the call
\* that did not return if there is one, and the errors of the group choice
all_values(cddl, ge, occur, values, d, j, errors) ==
  IF j > Len(values) THEN [ok |-> TRUE, abort |-> None, errors |-> errors]
  ELSE LET r == call_validate_group_entry(cddl, ge, occur, values[j], d)
       IN IF r = Ok THEN all_values(cddl, ge, occur, values, d, j + 1, errors)
          ELSE IF Aborts(r) THEN [ok |-> FALSE, abort |-> Some(r), errors |-> errors]
          ELSE [ok |-> FALSE, abort |-> None, errors |-> Append(errors, r)]

\* values.iter().any(..) from element j on, with the scoped errors
any_value(cddl, ge, occur, values, d, j, errors) ==
  IF j > Len(values) THEN [ok |-> FALSE, abort |-> None, errors |-> errors]
  ELSE LET r == call_validate_group_entry(cddl, ge, occur, values[j], d)
       IN IF r = Ok THEN [ok |-> TRUE, abort |-> None, errors |-> errors]
          ELSE IF Aborts(r) THEN [ok |-> FALSE, abort |-> Some(r), errors |-> errors]
          ELSE any_value(cddl, ge, occur, values, d, j + 1, Append(errors, r))

\* the loop `for ge in gc.0.iter()` from entry i on, with the errors collected so far
for_group_entries(cddl, gc, occur, v, d, i, errors) ==
  IF i > Len(gc)
  THEN IF errors # <<>> THEN MultiError(errors) ELSE Ok
  ELSE
  LET ge == gc[i]
  IN CASE v.kind = "array" ->
       LET values == v.elems
           occ == IF ge.v = "TypeGroupname" /\ ge.occur # None
                  THEN validate_array_occurrence(ge.occur[1],
                                                 IdentifierToString(ge.name), values)
                  ELSE IF ge.v = "InlineGroup" /\ ge.occur # None
                  THEN validate_array_occurrence(ge.occur[1], GroupToString(ge.g),
                                                 values)
                  ELSE Ok
           all == IF ge.v = "TypeGroupname" /\ IsTypeRuleName(cddl, ge.name)
                  THEN all_values(cddl, ge, occur, values, d, 1, errors)
                  ELSE [ok |-> FALSE, abort |-> None, errors |-> errors]
           any == any_value(cddl, ge, occur, values, d, 1, <<>>)
       IN IF occ # Ok THEN occ
          ELSE IF all.abort # None THEN all.abort[1]
          ELSE IF all.ok THEN Ok
          ELSE IF any.abort # None THEN any.abort[1]
          ELSE IF any.ok
          THEN for_group_entries(cddl, gc, occur, v, d, i + 1, all.errors)
          ELSE IF any.errors # <<>>
          THEN JSONError(None, GroupChoiceToString(gc), None, v)
          ELSE for_group_entries(cddl, gc, occur, v, d, i + 1, all.errors)
       [] v.kind = "object" ->
       LET r == call_validate_group_entry(cddl, ge, occur, v, d)
       IN IF r = Ok THEN for_group_entries(cddl, gc, occur, v, d, i + 1, errors)
          ELSE IF Aborts(r) THEN r
          ELSE for_group_entries(cddl, gc, occur, v, d, i + 1, Append(errors, r))
       [] OTHER -> JSONError(None, GroupChoiceToString(gc), None, v)

validate_group_choice(cddl, gc, occur, v, d) ==
  IF d = 0 THEN StackOverflow
  ELSE for_group_entries(cddl, gc, occur, v, d - 1, 1, <<>>)

validate_group_entry(cddl, ge, occur, v, d) ==
  IF d = 0 THEN StackOverflow
  ELSE
  CASE ge.v = "ValueMemberKey" ->
    IF ge.member_key = None THEN Panic
    ELSE
    LET mk == ge.member_key[1]
        emk == Some(MemberKeyToString(mk))
        keyError == SyntaxError(Str(
          "CDDL member key must be quoted string or bareword for validating JSON objects"))
    IN CASE mk.v = "Type1" ->
         CASE mk.t1.type2.v = "TextValue" ->
              LET t == mk.t1.type2.t
              IN IF v.kind = "object"
                 THEN IF ~is_type_json_prelude(TypeToString(ge.entry_type))
                      THEN IF MapGet(v, t) # None
                           THEN call_validate_type(cddl, ge.entry_type, emk, Some(Str(t)),
                                              occur, MapGet(v, t)[1], d - 1)
                           ELSE call_validate_type(cddl, ge.entry_type, emk, None, occur, v,
                                              d - 1)
                      ELSE IF MapGet(v, t) # None
                      THEN call_validate_type(cddl, ge.entry_type, emk, Some(Str(t)), occur,
                                         MapGet(v, t)[1], d - 1)
                      ELSE JSONError(emk, GroupEntryToString(ge), None, v)
                 ELSE call_validate_type(cddl, ge.entry_type, emk, None, occur, v, d - 1)
           [] mk.t1.type2.v = "Typename" /\ mk.t1.type2.tn \in {"tstr", "text"} -> Ok
           [] OTHER -> keyError
         [] mk.v = "Bareword" ->
         IF v.kind = "object"
         THEN IF ~is_type_json_prelude(TypeToString(ge.entry_type))
              THEN IF MapGet(v, mk.ident) # None
                   THEN call_validate_type(cddl, ge.entry_type, emk, Some(Str(mk.ident)),
                                      ge.occur, MapGet(v, mk.ident)[1], d - 1)
                   ELSE call_validate_type(cddl, ge.entry_type, emk, None, ge.occur, v, d - 1)
              ELSE IF MapGet(v, mk.ident) # None
              THEN call_validate_type(cddl, ge.entry_type, emk, Some(Str(mk.ident)),
                                 ge.occur, MapGet(v, mk.ident)[1], d - 1)
              ELSE IF occur # None /\ occur[1].v \in {"Optional", "OneOrMore"}
              THEN Ok
              ELSE JSONError(emk, MemberKeyToString(mk) \o TypeToString(ge.entry_type),
                             None, v)
         ELSE call_validate_type(cddl, ge.entry_type, emk, None, ge.occur, v, d - 1)
         [] OTHER -> keyError
    [] ge.v = "TypeGroupname" ->
         call_validate_rule_for_ident(cddl, ge.name, None, None, ge.occur, v, d - 1)
    [] OTHER ->
         IF ge.occur # None THEN call_validate_group(cddl, ge.g, ge.occur, v, d - 1)
         ELSE call_validate_group(cddl, ge.g, occur, v, d - 1)

Invoke(cddl, c, d) ==
  CASE c.f = "validate_rule_for_ident" ->
         validate_rule_for_ident(cddl, c.ident, c.emk, c.amk, c.occur, c.v, d)
    [] c.f = "validate_type_rule" ->
         validate_type_rule(cddl, c.tr, c.emk, c.amk, c.occur, c.v, d)
    [] c.f = "validate_group_rule" -> validate_group_rule(cddl, c.gr, c.occur, c.v, d)
    [] c.f = "validate_type" -> validate_type(cddl, c.t, c.emk, c.amk, c.occur, c.v, d)
    [] c.f = "validate_type1" -> validate_type1(cddl, c.t1, c.emk, c.amk, c.occur, c.v, d)
    [] c.f = "validate_type2" -> validate_type2(cddl, c.t2, c.emk, c.amk, c.occur, c.v, d)
    [] c.f = "validate_group" -> validate_group(cddl, c.g, c.occur, c.v, d)
    [] c.f = "validate_group_choice" ->
         validate_group_choice(cddl, c.gc, c.occur, c.v, d)
    [] c.f = "validate_group_entry" -> validate_group_entry(cddl, c.ge, c.occur, c.v, d)

validate(cddl, v, d) ==
  IF d = 0 THEN StackOverflow
  ELSE LET i == FirstTypeRuleFrom(cddl, 1)
       IN IF i = 0 THEN Ok
          ELSE call_validate_type_rule(cddl, cddl.rules[i], None, None, None, v, d - 1)

----------------------------------------------------------------------------
(* The values the calls are made with *)

\* sequences over S of length lo..hi
SeqsOf(S, lo, hi) == UNION {[1..n -> S] : n \in lo..hi}

ScalarValues ==
  {Null, Bool(TRUE), Bool(FALSE), PosInt(0), PosInt(3), PosInt(4), PosInt(10), Float(3),
   Float(6), NegInt(-1), BigPosInt(0), String("a"), String("mystring")}

ElementValues == {String("a"), PosInt(3), Object(<<>>)}

ArrayValues == {Array(elems) : elems \in SeqsOf(ElementValues, 0, MaxArrayLen)}

\* the values of tests::validate_json_object (and the same with "myarray": [])
\* and tests::validate_json_array
TestObject ==
  Object(<<Member("mykey", String("myvalue")),
           Member("myarray",
                  Array(<<Object(<<Member("myotherkey", String("myothervalue"))>>)>>))>>)

TestObjectEmptyArray ==
  Object(<<Member("mykey", String("myvalue")), Member("myarray", Array(<<>>))>>)

TestCoordinates ==
  Object(<<Member("longitude", PosInt(1234)), Member("latitude", PosInt(3947))>>)

TestArray == Array(<<String("washington"), TestCoordinates>>)

ObjectValues ==
  {Object(<<>>), Object(<<Member("k", String("a"))>>), Object(<<Member("k", PosInt(3))>>),
   Object(<<Member("j", PosInt(3))>>),
   Object(<<Member("k", Object(<<Member("k", String("a"))>>))>>),
   TestObject, TestObjectEmptyArray, TestCoordinates}

Values == ScalarValues \cup ArrayValues \cup ObjectValues \cup {TestArray}

----------------------------------------------------------------------------
(* The occurrence indicators *)

OptBounds == {None} \cup {Some(n) : n \in 0..MaxOccurBound}

Occurs ==
  {Optional, ZeroOrMore, OneOrMore} \cup {Exact(l, u) : l \in OptBounds, u \in OptBounds}

\* the indicators written on the entries of the generated rule sets
EntryOccurs == {None, Some(Optional), Some(ZeroOrMore), Some(OneOrMore),
                Some(Exact(Some(1), Some(2)))}

----------------------------------------------------------------------------
(* The rule sets *)

T1(a) == <<Type1(a)>>

T2(a, b) == <<Type1(a), Type1(b)>>

T3(a, b, c) == <<Type1(a), Type1(b), Type1(c)>>

Root(t) == CDDL(<<TypeRule("r", t)>>)

\* key: type, with a bareword key
Keyed(occur, key, t2) == ValueMemberKey(occur, Some(Bareword(key)), T1(t2))

\* "key" => type, with a quoted key
Quoted(occur, key, t2) ==
  ValueMemberKey(occur, Some(MemberKeyType1(Type1(TextValue(key)))), T1(t2))

\* a type entry with no member key
Keyless(occur, t2) == ValueMemberKey(occur, None, T1(t2))

\* { entries } and [ entries ] with a single group choice
MapOf(gc) == MapT(<<gc>>)

ArrayOf(gc) == ArrayT(<<gc>>)

TypeChoiceLeaves ==
  {TextValue("a"), IntValue(3), Typename("tstr"), Typename("foo"), OtherType2}

\* r = a / b / c over the leaves
TypeChoiceSchemas ==
  {Root([i \in 1..Len(s) |-> Type1(s[i])]) : s \in SeqsOf(TypeChoiceLeaves, 1, 3)}

\* r = { O k: tstr }
KeyedMapSchemas ==
  {Root(T1(MapOf(<<Keyed(o, "k", Typename("tstr"))>>))) : o \in EntryOccurs}

\* r = [ O2 at ], at = { O k: tstr }
PassedOccurSchemas ==
  {CDDL(<<TypeRule("r", T1(ArrayOf(<<TypeGroupname(o2, "at")>>))),
          TypeRule("at", T1(MapOf(<<Keyed(o, "k", Typename("tstr"))>>)))>>) :
     o2 \in EntryOccurs, o \in EntryOccurs}

\* r = [ O strtype ], strtype = tstr, for every indicator O
OccurrenceSchemas ==
  {CDDL(<<TypeRule("r", T1(ArrayOf(<<TypeGroupname(Some(o), "strtype")>>))),
          TypeRule("strtype", T1(Typename("tstr")))>>) : o \in Occurs}

\* r = [ O strtype ], r = [ O grp ], r = [ O ( x: tstr ) ], r = [ O nosuch ]
ArrayEntrySchemas ==
  UNION {{CDDL(<<TypeRule("r", T1(ArrayOf(<<TypeGroupname(o, "strtype")>>))),
                 TypeRule("strtype", T1(Typename("tstr")))>>),
          CDDL(<<TypeRule("r", T1(ArrayOf(<<TypeGroupname(o, "grp")>>))),
                 GroupRule("grp", Keyed(None, "x", Typename("tstr")))>>),
          Root(T1(ArrayOf(<<InlineGroup(o, <<<<Keyed(None, "x", Typename("tstr"))>>>>)>>))),
          Root(T1(ArrayOf(<<TypeGroupname(o, "nosuch")>>)))} : o \in EntryOccurs}

ArraySchemas ==
  {Root(T1(ArrayOf(<<Keyed(None, "x", Typename("tstr"))>>))),
   Root(T1(ArrayOf(<<Keyed(None, "x", Typename("tstr")), Keyed(None, "n", Typename("uint"))>>))),
   Root(T1(ArrayOf(<<Quoted(None, "x", Typename("tstr"))>>))),
   Root(T1(ArrayOf(<<>>))),
   \* r = [ strtype, 1*2 ( x: tstr ) ] and r = [ strtype, n: uint ], strtype = tstr
   CDDL(<<TypeRule("r", T1(ArrayOf(<<TypeGroupname(None, "strtype"),
                                     InlineGroup(Some(Exact(Some(1), Some(2))),
                                                 <<<<Keyed(None, "x", Typename("tstr"))>>>>)>>))),
          TypeRule("strtype", T1(Typename("tstr")))>>),
   CDDL(<<TypeRule("r", T1(ArrayOf(<<TypeGroupname(None, "strtype"),
                                     Keyed(None, "n", Typename("uint"))>>))),
          TypeRule("strtype", T1(Typename("tstr")))>>),
   \* r = [ strtype, anytype ], strtype = tstr, anytype = tstr / uint
   CDDL(<<TypeRule("r", T1(ArrayOf(<<TypeGroupname(None, "strtype"),
                                     TypeGroupname(None, "anytype")>>))),
          TypeRule("strtype", T1(Typename("tstr"))),
          TypeRule("anytype", T2(Typename("tstr"), Typename("uint")))>>),
   \* r = [ x: uint, strtype ], strtype = tstr
   CDDL(<<TypeRule("r", T1(ArrayOf(<<Keyed(None, "x", Typename("uint")),
                                     TypeGroupname(None, "strtype")>>))),
          TypeRule("strtype", T1(Typename("tstr")))>>),
   \* r = [ strtype, 2*2 numtype ], strtype = tstr, numtype = uint
   CDDL(<<TypeRule("r", T1(ArrayOf(<<TypeGroupname(None, "strtype"),
                                     TypeGroupname(Some(Exact(Some(2), Some(2))),
                                                   "numtype")>>))),
          TypeRule("strtype", T1(Typename("tstr"))),
          TypeRule("numtype", T1(Typename("uint")))>>),
   \* r = [ x: tstr // n: uint ]
   Root(T1(ArrayT(<<<<Keyed(None, "x", Typename("tstr"))>>,
                    <<Keyed(None, "n", Typename("uint"))>>>>)))}

MapSchemas ==
  {Root(T1(MapOf(<<Quoted(None, "k", Typename("tstr"))>>))),
   Root(T1(MapOf(<<Quoted(None, "k", Typename("uint"))>>))),
   Root(T1(MapOf(<<Keyed(None, "k", Typename("tstr")), Keyed(None, "j", Typename("uint"))>>))),
   Root(T1(MapOf(<<Keyed(None, "k", IntValue(3))>>))),
   \* r = { * tstr => any }
   Root(T1(MapOf(<<ValueMemberKey(Some(ZeroOrMore),
                                  Some(MemberKeyType1(Type1(Typename("tstr")))),
                                  T1(Typename("any")))>>))),
   \* member keys that are neither a quoted string nor a bareword
   Root(T1(MapOf(<<ValueMemberKey(None, Some(MemberKeyType1(Type1(IntValue(1)))),
                                  T1(Typename("tstr")))>>))),
   Root(T1(MapOf(<<ValueMemberKey(None, Some(MemberKeyValue("k")),
                                  T1(Typename("tstr")))>>))),
   \* r = { 1 => tstr // k: tstr } and r = { k: tstr // j: uint }
   Root(T1(MapT(<<<<ValueMemberKey(None, Some(MemberKeyType1(Type1(IntValue(1)))),
                                   T1(Typename("tstr")))>>,
                  <<Keyed(None, "k", Typename("tstr"))>>>>))),
   Root(T1(MapT(<<<<Keyed(None, "k", Typename("tstr"))>>,
                  <<Keyed(None, "j", Typename("uint"))>>>>))),
   \* r = { k: at }, at = { k: tstr }
   CDDL(<<TypeRule("r", T1(MapOf(<<Keyed(None, "k", Typename("at"))>>))),
          TypeRule("at", T1(MapOf(<<Keyed(None, "k", Typename("tstr"))>>)))>>),
   \* r = { k: nosuch }
   Root(T1(MapOf(<<Keyed(None, "k", Typename("nosuch"))>>)))}

\* entries that carry no member key
KeylessSchemas ==
  {Root(T1(ArrayOf(<<Keyless(None, Typename("tstr"))>>))),
   Root(T1(ArrayOf(<<Keyless(None, TextValue("a"))>>))),
   Root(T2(ArrayOf(<<Keyless(None, TextValue("a"))>>),
           ArrayOf(<<Keyed(None, "x", Typename("tstr"))>>))),
   Root(T1(MapOf(<<Keyless(None, Typename("tstr"))>>))),
   Root(T2(ArrayOf(<<Keyless(None, Typename("tstr"))>>),
           ArrayOf(<<Keyed(None, "x", Typename("tstr"))>>))),
   Root(T2(ArrayOf(<<Keyed(None, "x", Typename("tstr"))>>),
           ArrayOf(<<Keyless(None, Typename("tstr"))>>)))}

\* rules that refer to themselves or to each other
RecursiveSchemas ==
  {Root(T1(Typename("r"))),
   Root(T2(Typename("r"), Typename("tstr"))),
   Root(T2(Typename("tstr"), Typename("r"))),
   Root(T1(MapOf(<<Quoted(None, "k", Typename("r"))>>))),
   Root(T1(MapOf(<<Keyed(None, "k", Typename("r"))>>))),
   Root(T1(ArrayOf(<<TypeGroupname(None, "r")>>))),
   CDDL(<<TypeRule("r", T1(Typename("s"))), TypeRule("s", T1(Typename("r")))>>)}

\* the schemas of the tests of json.rs, with an integer literal of either variant
TestSchemas ==
  {Root(T1(Typename("null"))),
   Root(T1(Typename("true"))),
   Root(T1(Typename("bool"))),
   Root(T3(UintValue(3), FloatValue(3), UintValue(10))),
   Root(T3(IntValue(3), FloatValue(3), IntValue(10))),
   Root(T1(IntValue(-1))),
   Root(T1(TextValue("mystring"))),
   CDDL(<<TypeRule("myobject",
                   T1(MapOf(<<Keyed(None, "mykey", Typename("tstr")),
                              ValueMemberKey(None, Some(Bareword("myarray")),
                                T1(ArrayOf(<<TypeGroupname(Some(OneOrMore),
                                                           "arraytype")>>)))>>))),
          TypeRule("arraytype", T1(MapOf(<<Keyed(None, "myotherkey", Typename("tstr"))>>)))>>),
   CDDL(<<TypeRule("Geography",
                   T1(ArrayOf(<<Keyed(None, "city", Typename("tstr")),
                                Keyed(None, "gpsCoordinates", Typename("GpsCoordinates"))>>))),
          TypeRule("GpsCoordinates",
                   T1(MapOf(<<Keyed(None, "longitude", Typename("uint")),
                              Keyed(None, "latitude", Typename("uint"))>>)))>>)}

\* the names validate_numeric_data_type tells apart, names it does not, and a rule
NumericIdents ==
  {"uint", "nint", "int", "number", "float16", "float32", "float64", "float", "any", "s"}

\* r = id, s = uint
NumericTypeSchemas ==
  {CDDL(<<TypeRule("r", T1(Typename(id))), TypeRule("s", T1(Typename("uint")))>>) :
     id \in NumericIdents}

\* rule sets with no Type rule
NoTypeRuleSchemas ==
  {CDDL(<<>>), CDDL(<<GroupRule("grp", Keyed(None, "x", Typename("tstr")))>>)}

Schemas ==
  TypeChoiceSchemas \cup KeyedMapSchemas \cup PassedOccurSchemas \cup OccurrenceSchemas
  \cup ArrayEntrySchemas
  \cup ArraySchemas \cup MapSchemas \cup KeylessSchemas \cup RecursiveSchemas
  \cup TestSchemas \cup NoTypeRuleSchemas \cup NumericTypeSchemas

----------------------------------------------------------------------------
(* The parts of a rule set *)

RECURSIVE TypesInType(_), TypesInGroup(_), EntriesInType(_), EntriesInGroup(_)
RECURSIVE ChoicesInType(_), ChoicesInGroup(_)

SubGroupsOfType(t) ==
  {t[i].type2.g : i \in {j \in 1..Len(t) : t[j].type2.v \in {"Array", "Map"}}}

EntriesOfGroup(g) == UNION {{g[i][j] : j \in 1..Len(g[i])} : i \in 1..Len(g)}

TypesInType(t) == {t} \cup UNION {TypesInGroup(g) : g \in SubGroupsOfType(t)}

TypesInGroup(g) ==
  UNION {IF ge.v = "ValueMemberKey" THEN TypesInType(ge.entry_type)
         ELSE IF ge.v = "InlineGroup" THEN TypesInGroup(ge.g)
         ELSE {} : ge \in EntriesOfGroup(g)}

EntriesInType(t) == UNION {EntriesInGroup(g) : g \in SubGroupsOfType(t)}

EntriesInGroup(g) ==
  EntriesOfGroup(g)
  \cup UNION {IF ge.v = "ValueMemberKey" THEN EntriesInType(ge.entry_type)
              ELSE IF ge.v = "InlineGroup" THEN EntriesInGroup(ge.g)
              ELSE {} : ge \in EntriesOfGroup(g)}

ChoicesInType(t) == UNION {ChoicesInGroup(g) : g \in SubGroupsOfType(t)}

ChoicesInGroup(g) ==
  {g[i] : i \in 1..Len(g)}
  \cup UNION {IF ge.v = "ValueMemberKey" THEN ChoicesInType(ge.entry_type)
              ELSE IF ge.v = "InlineGroup" THEN ChoicesInGroup(ge.g)
              ELSE {} : ge \in EntriesOfGroup(g)}

RuleIndices(cddl, variant) == {i \in 1..Len(cddl.rules) : cddl.rules[i].v = variant}

TypesOf(cddl) ==
  UNION {TypesInType(cddl.rules[i].value) : i \in RuleIndices(cddl, "Type")}
  \cup UNION {TypesInGroup(<<<<cddl.rules[i].entry>>>>) : i \in RuleIndices(cddl, "Group")}

GroupEntriesOf(cddl) ==
  UNION {EntriesInType(cddl.rules[i].value) : i \in RuleIndices(cddl, "Type")}
  \cup UNION {EntriesInGroup(<<<<cddl.rules[i].entry>>>>) : i \in RuleIndices(cddl, "Group")}

GroupChoicesOf(cddl) ==
  UNION {ChoicesInType(cddl.rules[i].value) : i \in RuleIndices(cddl, "Type")}

NumericLiteralsOf(cddl) ==
  UNION {{t[i].type2 : i \in {j \in 1..Len(t) :
                                t[j].type2.v \in {"IntValue", "UintValue", "FloatValue"}}} :
         t \in TypesOf(cddl)}

----------------------------------------------------------------------------
(* The state machine: a rule set and a value are given, and one call of    *)
(* the Validator is made on them.                                          *)

NoResult == [k |-> "None"]

Init ==
  /\ self \in Schemas
  /\ value \in Values
  /\ pc = "ready"
  /\ call = [op |-> "none"]
  /\ result = NoResult

\* the identifiers of the Typename leaves of the rule set
TypenamesOf(cddl) ==
  UNION {{t[i].type2.tn : i \in {j \in 1..Len(t) : t[j].type2.v = "Typename"}} :
         t \in TypesOf(cddl)}

\* the member-key labels of a call: none, or the label of key k
MemberKeyLabels == {None, Some(Str("k"))}

\* the occurrences a caller passes down: none (validate), or the indicator of an
\* entry of the rule set
PassedOccurs(cddl) == {None} \cup {ge.occur : ge \in GroupEntriesOf(cddl)}

Validate ==
  /\ pc = "ready"
  /\ call' = [op |-> "validate"]
  /\ result' = validate(self, value, MaxDepth)
  /\ pc' = "done"
  /\ UNCHANGED <<self, value>>

ValidateType ==
  /\ pc = "ready"
  /\ \E t \in TypesOf(self), occur \in PassedOccurs(self) :
       /\ call' = [op |-> "validate_type", t |-> t, occur |-> occur]
       /\ result' = validate_type(self, t, None, None, occur, value, MaxDepth)
  /\ pc' = "done"
  /\ UNCHANGED <<self, value>>

ValidateGroupChoice ==
  /\ pc = "ready"
  /\ \E gc \in GroupChoicesOf(self), occur \in PassedOccurs(self) :
       /\ call' = [op |-> "validate_group_choice", gc |-> gc, occur |-> occur]
       /\ result' = validate_group_choice(self, gc, occur, value, MaxDepth)
  /\ pc' = "done"
  /\ UNCHANGED <<self, value>>

ValidateGroupEntry ==
  /\ pc = "ready"
  /\ \E ge \in GroupEntriesOf(self), occur \in PassedOccurs(self) :
       /\ call' = [op |-> "validate_group_entry", ge |-> ge, occur |-> occur]
       /\ result' = validate_group_entry(self, ge, occur, value, MaxDepth)
  /\ pc' = "done"
  /\ UNCHANGED <<self, value>>

\* validate_group_choice checks the indicator of a TypeGroupname or InlineGroup entry
ValidateArrayOccurrence ==
  /\ pc = "ready"
  /\ value.kind = "array"
  /\ \E ge \in {e \in GroupEntriesOf(self) :
                  e.v \in {"TypeGroupname", "InlineGroup"} /\ e.occur # None} :
       /\ call' = [op |-> "validate_array_occurrence", occur |-> ge.occur[1]]
       /\ result' = validate_array_occurrence(
                       ge.occur[1],
                       IF ge.v = "TypeGroupname" THEN IdentifierToString(ge.name)
                       ELSE GroupToString(ge.g),
                       value.elems)
  /\ pc' = "done"
  /\ UNCHANGED <<self, value>>

ValidateNumericValue ==
  /\ pc = "ready"
  /\ value.kind = "number"
  /\ \E t2 \in NumericLiteralsOf(self) :
       /\ call' = [op |-> "validate_numeric_value", t2 |-> t2]
       /\ result' = validate_numeric_value(t2, value)
  /\ pc' = "done"
  /\ UNCHANGED <<self, value>>

\* validate_type2 passes the name of a Typename and its member-key labels
ValidateNumericDataType ==
  /\ pc = "ready"
  /\ value.kind = "number"
  /\ \E ident \in TypenamesOf(self), emk \in MemberKeyLabels, amk \in MemberKeyLabels :
       /\ call' = [op |-> "validate_numeric_data_type", ident |-> ident]
       /\ result' = validate_numeric_data_type(emk, amk, ident, value)
  /\ pc' = "done"
  /\ UNCHANGED <<self, value>>

Next ==
  \/ Validate
  \/ ValidateType
  \/ ValidateGroupChoice
  \/ ValidateGroupEntry
  \/ ValidateArrayOccurrence
  \/ ValidateNumericValue
  \/ ValidateNumericDataType

Spec == Init /\ [][Next]_vars

----------------------------------------------------------------------------
(* Properties *)

Returned(op) == pc = "done" /\ call.op = op

IsRecursive(cddl) == cddl \in RecursiveSchemas

\* Only a rule set whose rules refer to themselves exhausts the stack, and only
\* an entry with no member key panics: MaxDepth is deep enough for the rest.
DepthSuffices ==
  pc = "done" =>
    /\ result.k = "StackOverflow" => IsRecursive(self)
    /\ result.k = "Panic" =>
         \E ge \in GroupEntriesOf(self) : ge.v = "ValueMemberKey" /\ ge.member_key = None

Range(s) == {s[i] : i \in 1..Len(s)}

\* what validate_type1 returns for each alternative of the Type of the call
AlternativeResults ==
  [i \in 1..Len(call.t) |->
     validate_type1(self, call.t[i], None, None, call.occur, value, MaxDepth - 1)]

\* C1: validate_type succeeds if and only if at least one alternative of the
\* Type matches the value, and when all N alternatives fail it returns the
\* aggregate of exactly their N failures, in declared order.
C1_TypeChoiceFirstMatch ==
  Returned("validate_type") =>
    /\ result = Ok <=> \E i \in 1..Len(call.t) : AlternativeResults[i] = Ok
    /\ (\A i \in 1..Len(call.t) : IsErr(AlternativeResults[i]))
         => result = MultiError(AlternativeResults)

NonEmptyFailure(r) == IsErr(r) /\ (r.k = "MultiError" => r.errors # <<>>)

\* C2: validate returns success or a non-empty structured failure and never
\* panics or aborts, whatever group entries the syntax tree holds.
C2_ValidateNeverPanics ==
  Returned("validate") => result = Ok \/ NonEmptyFailure(result)

\* the call is validate_group_entry on a keyed entry with a bareword key and a
\* built-in primitive entry type, against a mapping that lacks the key
AbsentBarewordKey ==
  /\ Returned("validate_group_entry")
  /\ call.ge.v = "ValueMemberKey"
  /\ call.ge.member_key # None
  /\ call.ge.member_key[1].v = "Bareword"
  /\ is_type_json_prelude(TypeToString(call.ge.entry_type))
  /\ value.kind = "object"
  /\ MapGet(value, call.ge.member_key[1].ident) = None

\* C3: a bareword-keyed entry of primitive type whose key is absent from the
\* mapping succeeds when the entry's own indicator is Optional or OneOrMore,
\* and otherwise fails with a value mismatch whose expected member key names
\* the key, whatever occurrence the caller passes down.
C3_AbsentKeyByOwnOccurrence ==
  AbsentBarewordKey =>
    IF call.ge.occur \in {Some(Optional), Some(OneOrMore)}
    THEN result = Ok
    ELSE /\ result.k = "Target"
         /\ result.expected_memberkey # None
         /\ call.ge.member_key[1].ident \in Range(result.expected_memberkey[1])

\* the Number is an integer (not a float) equal to n
IsInteger(v, n) == v.repr \in {"PosInt", "NegInt"} /\ v.hi = 0 /\ v.lo = n

IntegerLiteralOf(t2) == IF t2.v = "IntValue" THEN t2.i ELSE t2.u

NumericTestSchemas ==
  {Root(T3(UintValue(3), FloatValue(3), UintValue(10))),
   Root(T3(IntValue(3), FloatValue(3), IntValue(10)))}

\* C4: an integer literal (IntValue or UintValue) matches a number exactly
\* when the number is an integer equal to the literal, any other number is a
\* value mismatch; so 3 / 1.5 / 10 rejects 4 with an aggregate of three
\* mismatches.
C4_IntegerLiteralEquality ==
  /\ (Returned("validate_numeric_value") /\ call.t2.v \in {"IntValue", "UintValue"}) =>
       IF IsInteger(value, IntegerLiteralOf(call.t2)) THEN result = Ok
       ELSE result.k = "Target"
  /\ (Returned("validate") /\ self \in NumericTestSchemas /\ value = PosInt(4)) =>
       /\ result.k = "MultiError"
       /\ Len(result.errors) = 3
       /\ \A i \in 1..3 : result.errors[i].k = "Target"

\* the entry refers by name to a Type rule
IsTypeRuleReference(ge) == ge.v = "TypeGroupname" /\ IsTypeRuleName(self, ge.name)

\* what validate_group_entry returns for entry ge on element j of the sequence
ElementResult(ge, j) ==
  validate_group_entry(self, ge, call.occur, value.elems[j], MaxDepth - 1)

\* C5: validate_group_choice on a sequence succeeds only if every element
\* satisfies each entry of the choice that refers to a Type rule.
C5_TypeRuleEntryEveryElement ==
  (Returned("validate_group_choice") /\ value.kind = "array" /\ result = Ok) =>
    \A ge \in Range(call.gc) :
      IsTypeRuleReference(ge) =>
        \A j \in 1..Len(value.elems) : ElementResult(ge, j) = Ok

\* a keyed entry, a reference to a Group rule, or an inline group
IsSlotEntry(ge) ==
  \/ ge.v = "ValueMemberKey" /\ ge.member_key # None
  \/ ge.v = "TypeGroupname" /\ RuleIndexFrom(self, ge.name, 1) # 0
       /\ ~IsTypeRuleName(self, ge.name)
  \/ ge.v = "InlineGroup"

\* C6: validate_group_choice on a sequence succeeds only if each entry that is
\* not a Type-rule reference is satisfied by at least one element; a sequence
\* with no satisfying element, the empty one included, is rejected with a
\* failure.
C6_SlotEntrySomeElement ==
  (Returned("validate_group_choice") /\ value.kind = "array") =>
    \A ge \in Range(call.gc) :
      (IsSlotEntry(ge) /\ \A j \in 1..Len(value.elems) : ElementResult(ge, j) # Ok)
        => IsErr(result)

\* the lengths an occurrence indicator admits
Admits(o, len) ==
  CASE o.v \in {"ZeroOrMore", "Optional"} -> TRUE
    [] o.v = "OneOrMore" -> len > 0
    [] OTHER -> (o.l = None \/ len >= o.l[1]) /\ (o.u = None \/ len <= o.u[1])

\* how the failure of an indicator starts
FailureKind(o) ==
  CASE o.v = "Exact" /\ o.l # None /\ o.u # None /\ o.l = o.u -> "Expecting exactly"
    [] o.v = "Exact" /\ o.l # None /\ o.u # None /\ o.l # o.u -> "Expecting between"
    [] o.v = "Exact" /\ o.l # None /\ o.u = None -> "Expecting at least"
    [] o.v = "Exact" /\ o.l = None /\ o.u # None -> "Expecting no more than"
    [] OTHER -> "Expecting one or more values of group"

\* C7: validate_array_occurrence succeeds exactly on the lengths the indicator
\* admits, and every failure is an occurrence failure of the kind of its
\* sub-case (exactly, between, at least, no more than).
C7_ArrayOccurrence ==
  Returned("validate_array_occurrence") =>
    IF Admits(call.occur, Len(value.elems)) THEN result = Ok
    ELSE result.k = "Occurrence" /\ result.text[1] = FailureKind(call.occur)

\* bound (2,2) rejects a sequence of length 3 with the failure of an exact count
C7_Witness ==
  /\ Returned("validate_array_occurrence")
  /\ call.occur = Exact(Some(2), Some(2))
  /\ Len(value.elems) = 3
  /\ result.k = "Occurrence"
  /\ result.text[1] = "Expecting exactly"

\* the root rule is a reference to a name that is neither built in nor a rule
RootIsUnresolvedReference ==
  /\ Len(self.rules) = 1
  /\ self.rules[1].v = "Type"
  /\ self.rules[1].value[1].type2.v = "Typename"
  /\ self.rules[1].value[1].type2.tn \notin PreludeNames
  /\ RuleIndexFrom(self, self.rules[1].value[1].type2.tn, 1) = 0

\* the failure is a schema error or an aggregate that holds one
RECURSIVE CarriesSchemaError(_)
CarriesSchemaError(r) ==
  \/ r.k = "Syntax"
  \/ r.k = "MultiError" /\ \E i \in 1..Len(r.errors) : CarriesSchemaError(r.errors[i])

\* C8: validation that reaches a reference to a name that is neither built in
\* nor a rule fails with a schema error for a value of every kind, and never
\* with a plain value mismatch or a success.
C8_UnresolvedNameIsSchemaError ==
  (Returned("validate") /\ RootIsUnresolvedReference) => CarriesSchemaError(result)

\* C9: when an alternative of a type choice yields a schema error, the call
\* fails with that schema error: it is not folded into the aggregate and no
\* later alternative is tried.
C9_SchemaErrorAbortsChoice ==
  Returned("validate_type") =>
    \A i \in 1..Len(call.t) :
      (/\ AlternativeResults[i].k = "Syntax"
       /\ \A j \in 1..(i - 1) : IsErr(AlternativeResults[j]))
        => result = AlternativeResults[i]

\* C10: every validate call returns a result, also for rules that refer to
\* themselves or to each other: the recursion never exhausts the stack.
C10_ValidateTerminates ==
  Returned("validate") => result.k # "StackOverflow"

\* the identifier is a built-in primitive type name or the name of a rule
Resolves(cddl, ident) == ident \in PreludeNames \/ RuleIndexFrom(cddl, ident, 1) # 0

\* the member key is a bareword, a text literal or the wildcard tstr / text
SupportedKey(mk) ==
  \/ mk.v = "Bareword"
  \/ /\ mk.v = "Type1"
     /\ \/ mk.t1.type2.v = "TextValue"
        \/ mk.t1.type2.v = "Typename" /\ mk.t1.type2.tn \in {"tstr", "text"}

\* the rule set uses only constructs the engine supports, and every identifier
\* in it resolves
WellFormedSchema(cddl) ==
  /\ \A t \in TypesOf(cddl) : \A i \in 1..Len(t) :
       /\ t[i].type2.v \in {"TextValue", "IntValue", "UintValue", "FloatValue",
                            "Typename", "Array", "Map"}
       /\ t[i].type2.v = "Typename" => Resolves(cddl, t[i].type2.tn)
  /\ \A ge \in GroupEntriesOf(cddl) :
       /\ ge.v = "TypeGroupname" => Resolves(cddl, ge.name)
       /\ ge.v = "ValueMemberKey" =>
            ge.member_key # None /\ SupportedKey(ge.member_key[1])

\* C11: for a rule set that uses only supported constructs and whose every
\* identifier is built in or a defined rule, validate returns no schema error,
\* alone or inside an aggregate, whatever the value.
C11_SchemaErrorOnlyFromBrokenSchema ==
  (Returned("validate") /\ WellFormedSchema(self)) => ~CarriesSchemaError(result)

\* what validate_group_entry returns for each entry of the choice of the call
\* on the value itself
EntryResults ==
  [i \in 1..Len(call.gc) |->
     validate_group_entry(self, call.gc[i], call.occur, value, MaxDepth - 1)]

IsFailure(r) == r # Ok

\* C12: validate_group_choice on a mapping checks every entry against the
\* mapping: it succeeds if and only if every entry succeeds, and otherwise
\* returns the aggregate of the failures of the failing entries, in entry order.
C12_MappingChecksEveryEntry ==
  (Returned("validate_group_choice") /\ value.kind = "object") =>
    /\ result = Ok <=> \A i \in 1..Len(call.gc) : EntryResults[i] = Ok
    /\ result # Ok => result = MultiError(SelectSeq(EntryResults, IsFailure))

\* the Number is an integer of the signed 64-bit range
IsInt64(v) == v.kind = "number" /\ v.repr \in {"PosInt", "NegInt"} /\ v.hi = 0

\* the numbers the claim has identifier id accept
NumericTypeAccepts(id, n) ==
  \/ id = "uint" /\ n >= 0
  \/ id = "nint" /\ n < 0
  \/ id \in {"int", "number", "float16", "float32"}

\* C13: on an integer of the signed 64-bit range validate_numeric_data_type
\* succeeds exactly for uint and n >= 0, nint and n < 0, int, number, float16
\* and float32; every other identifier, the name of a rule included, is a value
\* mismatch, and validate_type on a number looks no rule up for it.
C13_NumericDataType ==
  /\ (Returned("validate_numeric_data_type") /\ IsInt64(value)) =>
       IF NumericTypeAccepts(call.ident, value.lo) THEN result = Ok
       ELSE result.k = "Target"
  /\ (/\ Returned("validate_type")
      /\ IsInt64(value)
      /\ Len(call.t) = 1
      /\ call.t[1].type2.v = "Typename") =>
       IF NumericTypeAccepts(call.t[1].type2.tn, value.lo) THEN result = Ok
       ELSE result = MultiError(<<JSONError(None, Str(call.t[1].type2.tn), None, value)>>)

\* nint rejects 0
C13_Witness ==
  /\ Returned("validate_numeric_data_type")
  /\ call.ident = "nint"
  /\ value = PosInt(0)
  /\ result.k = "Target"

\* what validate_group_choice returns for entry i of the choice of the call
\* alone: its indicator against the length, then its element match
EntryAlone(i) == validate_group_choice(self, <<call.gc[i]>>, call.occur, value, MaxDepth)

\* C14: validate_group_choice on a sequence succeeds only if every entry of the
\* choice passes its check (the length satisfies its occurrence indicator and
\* the sequence satisfies the entry): no entry is skipped or forgotten because
\* another entry of the choice succeeded.
C14_SequenceChecksEveryEntry ==
  (Returned("validate_group_choice") /\ value.kind = "array" /\ result = Ok) =>
    \A i \in 1..Len(call.gc) : EntryAlone(i) = Ok

====
